---- MODULE Spec2Model ----
(***************************************************************************)
(* Model of the rpc rate limiter of handler/rate_limiter.go: a registry of *)
(* leaky-bucket collectors keyed by topic, guarded by one RWMutex, used by *)
(* concurrently running stream handlers.                                   *)
(*                                                                         *)
(* Time is counted in ticks of 1/TicksPerSec second, and a bucket stores   *)
(* the number of ticks until it has leaked empty (the collector's p - now).*)
(*                                                                         *)
(* The module also models the conversions of types.ResourceArray and       *)
(* types.TaskDataArray to the lists of their data records.                 *)
(***************************************************************************)
EXTENDS Integers, Sequences, FiniteSets, TLC

VARIABLES
    limiterMap,   \* limiter.limiterMap: topic -> collector (a pointer, here an index)
    buckets,      \* per collector, Collector.buckets: key -> ticks until empty
    freeCalls,    \* per collector, how many times Collector.Free ran on it
    rw,           \* limiter.RWMutex: the writer holding it ("none": free), the readers
    pc,           \* per handler, where it stands in its current call
    call,         \* per handler, the frame of its current (or last) call
    hist,         \* per collector and key, the commits of the current instant
    ncalls,       \* per handler, the calls it has started
    resources,    \* a types.ResourceArray, the receiver of To
    tasks,        \* a types.TaskDataArray, the receiver of To
    resourceData, \* what ResourceArray.To returned for resources
    taskData      \* what TaskDataArray.To returned for tasks

(* The arrays and their conversions, which the limiter does not touch. *)
arrays == <<resources, tasks, resourceData, taskData>>

vars == <<limiterMap, buckets, freeCalls, rw, pc, call, hist, ncalls, arrays>>

----------------------------------------------------------------------------
(* Bounds of the model. *)

MaxAmt == 2
MaxCalls == 2
MaxConcCalls == 2
NumPeers == 2
MaxLen == 3
NumData == 2

Procs == {"h1", "h2"}
Peers == 1..NumPeers
Amounts == 0..MaxAmt

----------------------------------------------------------------------------
(* Constants of the program. *)

defaultBurstLimit == 5

rpcLimiterTopic == "rpc-limiter-topic"

RPCGoodByeTopic == "/carrier/req/goodbye/1"
RPCMetaDataTopic == "/carrier/req/metadata/1"
RPCPingTopic == "/carrier/req/ping/1"
RPCStatusTopic == "/carrier/req/status/1"
RPCBlocksByRangeTopic == "/carrier/req/blocks_by_range/1"
RPCBlocksByRootTopic == "/carrier/req/blocks_by_root/1"

ProtocolSuffix == "/ssz_snappy"

addEncoding(topic) == topic \o ProtocolSuffix

Min(a, b) == IF a < b THEN a ELSE b
Max(a, b) == IF a > b THEN a ELSE b

(* uint64(x) of an int64 x.  The conversion is taken modulo 2^30 instead of *)
(* 2^64, the widest power the model checker's integers hold: it too is the *)
(* identity from 0 on and sends a negative x above every amount used here. *)
Uint64(x) == x % (2^30)

----------------------------------------------------------------------------
(* The leaky bucket collectors (package leakybucket). *)

NewCollector(rate, capacity) == [rate |-> rate, capacity |-> capacity]

(* The collectors newRateLimiter allocates, in allocation order; a         *)
(* collector's index stands for its address.                               *)
Collectors ==
    << NewCollector(1, 1),
       NewCollector(1, defaultBurstLimit),
       NewCollector(1, defaultBurstLimit),
       NewCollector(1, defaultBurstLimit),
       NewCollector(1, defaultBurstLimit * 20),
       NewCollector(5, defaultBurstLimit * 2) >>

CollectorIds == 1..Len(Collectors)

goodbyeCollector == 1
metadataCollector == 2
pingCollector == 3
statusCollector == 4
blockCollector == 5
rpcCollector == 6

newRateLimiter ==
    [t \in {addEncoding(RPCGoodByeTopic), addEncoding(RPCMetaDataTopic),
            addEncoding(RPCPingTopic), addEncoding(RPCStatusTopic),
            addEncoding(RPCBlocksByRangeTopic), rpcLimiterTopic} |->
        CASE t = addEncoding(RPCGoodByeTopic) -> goodbyeCollector
          [] t = addEncoding(RPCMetaDataTopic) -> metadataCollector
          [] t = addEncoding(RPCPingTopic) -> pingCollector
          [] t = addEncoding(RPCStatusTopic) -> statusCollector
          [] t = addEncoding(RPCBlocksByRangeTopic) -> blockCollector
          [] OTHER -> rpcCollector]

(* Ticks per second: the rate of the fastest collector, which every other  *)
(* rate divides, so that every collector leaks a whole number of ticks per *)
(* unit of cost.                                                           *)
TicksPerSec == Collectors[rpcCollector].rate

TicksPerUnit(c) == TicksPerSec \div Collectors[c].rate

CeilDiv(a, b) == (a + b - 1) \div b

(* LeakyBucket.Count: the units not yet leaked, rounded up. *)
BucketCount(c, level) == CeilDiv(level, TicksPerUnit(c))

(* Collector.Count: 0 for a key without a bucket. *)
CollectorCount(bs, c, key) ==
    IF key \in DOMAIN bs[c] THEN BucketCount(c, bs[c][key]) ELSE 0

(* Collector.Remaining *)
CollectorRemaining(bs, c, key) == Collectors[c].capacity - CollectorCount(bs, c, key)

(* LeakyBucket.Add taking the whole amount, whatever room is left. *)
BucketAddUnbounded(c, level, amount) ==
    Max(0, level + amount * TicksPerUnit(c))

(* LeakyBucket.Add on a bucket of the given level: the new level.  A full  *)
(* bucket takes nothing, and the amount is cut to the room that is left.   *)
BucketAdd(c, level, amount) ==
    LET count == BucketCount(c, level)
        room == Collectors[c].capacity - count
    IN  IF count >= Collectors[c].capacity
        THEN level
        ELSE Max(0, level + Min(amount, room) * TicksPerUnit(c))

(* Collector.Add: creates the key's bucket (empty, p = now) when missing.  *)
CollectorAdd(bs, c, key, amount) ==
    LET level == IF key \in DOMAIN bs[c] THEN bs[c][key] ELSE 0
        new == BucketAdd(c, level, amount)
    IN  [bs EXCEPT ![c] =
            [k \in DOMAIN bs[c] \cup {key} |-> IF k = key THEN new ELSE bs[c][k]]]

(* Collector.Free: Reset drops every bucket. *)
CollectorFree(bs, c) == [bs EXCEPT ![c] = << >>]


----------------------------------------------------------------------------
(* Streams, results and call frames. *)

(* stream.Conn().RemotePeer().String() *)
PeerKey(peer) == "16Uiu2HAm" \o ToString(peer)

Stream(protocol, peer) == [protocol |-> protocol, peer |-> peer]

ErrNil == "nil"
ErrRateLimited == "rate limited"
ErrNotFound == "collector does not exist for topic"
ErrNoLock == "limiter.retrieveCollector: caller must hold read/write lock"

NoPrior == [ok |-> FALSE]

(* An idle handler's frame. *)
NoCall ==
    [op |-> "none", stream |-> Stream("", 0), amt |-> 0, collector |-> 0,
     remaining |-> 0, result |-> ErrNil, incs |-> << >>, writes |-> << >>,
     logs |-> 0, tempMap |-> {}, visited |-> {}, prior |-> NoPrior]

(* The frame of a call that starts.  prior remembers the handler's check   *)
(* when the call before this one was a validateRequest that returned nil.  *)
NewCall(old, op, stream, amt) ==
    [NoCall EXCEPT
        !.op = op, !.stream = stream, !.amt = amt,
        !.prior = IF old.op = "validateRequest" /\ old.result = ErrNil
                  THEN [ok |-> TRUE, stream |-> old.stream, amt |-> old.amt,
                        remaining |-> old.remaining]
                  ELSE NoPrior]

----------------------------------------------------------------------------
(* The RWMutex. *)

RWMutexLocked == rw.writer # "none"
RWMutexRLocked == rw.readers # {}

RLock(i) ==
    /\ rw.writer = "none"
    /\ rw' = [rw EXCEPT !.readers = @ \cup {i}]

RUnlock(i) == rw' = [rw EXCEPT !.readers = @ \ {i}]

Lock(i) ==
    /\ rw.writer = "none"
    /\ rw.readers = {}
    /\ rw' = [rw EXCEPT !.writer = i]

Unlock(i) == rw' = [rw EXCEPT !.writer = IF @ = i THEN "none" ELSE @]

(* add taking the shared hold instead of the exclusive one. *)
LockModeAddShared(op) ==
    CASE op = "topicCollector" -> "R"
      [] op = "validateRequest" -> "R"
      [] op = "validateRawRpcRequest" -> "R"
      [] op = "add" -> "R"
      [] op = "addRawStream" -> "W"
      [] op = "free" -> "W"

(* The hold each operation takes on entry and drops by defer. *)
LockMode(op) ==
    CASE op = "topicCollector" -> "R"
      [] op = "validateRequest" -> "R"
      [] op = "validateRawRpcRequest" -> "R"
      [] op = "add" -> "W"
      [] op = "addRawStream" -> "W"
      [] op = "free" -> "W"

(* Every operation resolving the stream's own topic. *)
TopicOfStream(op, stream) == stream.protocol

(* add resolving the general topic like addRawStream. *)
TopicOfAddGeneral(op, stream) ==
    IF op \in {"validateRawRpcRequest", "addRawStream", "add"}
    THEN rpcLimiterTopic
    ELSE stream.protocol

(* The topic each operation resolves. *)
TopicOf(op, stream) ==
    IF op \in {"validateRawRpcRequest", "addRawStream"}
    THEN rpcLimiterTopic
    ELSE stream.protocol

(* retrieveCollector falling back to the general collector for a topic    *)
(* that is not registered.                                                 *)
retrieveCollectorDefault(topic) ==
    IF ~RWMutexLocked /\ ~RWMutexRLocked
    THEN [collector |-> 0, err |-> ErrNoLock]
    ELSE IF topic \notin DOMAIN limiterMap
         THEN IF rpcLimiterTopic \in DOMAIN limiterMap
              THEN [collector |-> limiterMap[rpcLimiterTopic], err |-> ErrNil]
              ELSE [collector |-> 0, err |-> ErrNotFound]
         ELSE [collector |-> limiterMap[topic], err |-> ErrNil]

retrieveCollector(topic) ==
    IF ~RWMutexLocked /\ ~RWMutexRLocked
    THEN [collector |-> 0, err |-> ErrNoLock]
    ELSE IF topic \notin DOMAIN limiterMap
         THEN [collector |-> 0, err |-> ErrNotFound]
         ELSE [collector |-> limiterMap[topic], err |-> ErrNil]

----------------------------------------------------------------------------
(* What each operation does with the collector it resolved. *)

(* validateRequest without the raise of a declared 0 to 1. *)
validateRequestCheckNoMinimum(stream, amt, remaining, writeOk) ==
    IF amt > Uint64(remaining)
    THEN [result |-> ErrRateLimited,
          incs |-> << stream.peer >>,
          writes |-> << [stream |-> stream, ok |-> writeOk] >>]
    ELSE [result |-> ErrNil, incs |-> << >>, writes |-> << >>]

(* validateRequest admitting one unit more than remains. *)
validateRequestCheckLenient(stream, amt, remaining, writeOk) ==
    LET a == IF amt = 0 THEN 1 ELSE amt
    IN  IF a > Uint64(remaining) + 1
        THEN [result |-> ErrRateLimited,
              incs |-> << stream.peer >>,
              writes |-> << [stream |-> stream, ok |-> writeOk] >>]
        ELSE [result |-> ErrNil, incs |-> << >>, writes |-> << >>]

(* validateRequest rejecting a request that takes all that remains. *)
validateRequestCheckStrict(stream, amt, remaining, writeOk) ==
    LET a == IF amt = 0 THEN 1 ELSE amt
    IN  IF a >= Uint64(remaining)
        THEN [result |-> ErrRateLimited,
              incs |-> << stream.peer >>,
              writes |-> << [stream |-> stream, ok |-> writeOk] >>]
        ELSE [result |-> ErrNil, incs |-> << >>, writes |-> << >>]

(* validateRequest, from the read of remaining to the return. *)
validateRequestCheck(stream, amt, remaining, writeOk) ==
    LET a == IF amt = 0 THEN 1 ELSE amt
    IN  IF a > Uint64(remaining)
        THEN [result |-> ErrRateLimited,
              incs |-> << stream.peer >>,
              writes |-> << [stream |-> stream, ok |-> writeOk] >>]
        ELSE [result |-> ErrNil, incs |-> << >>, writes |-> << >>]

(* validateRawRpcRequest without the penalty for the peer. *)
validateRawRpcRequestCheckNoPenalty(stream, remaining, writeOk) ==
    LET a == 1
    IN  IF a > remaining
        THEN [result |-> ErrRateLimited,
              incs |-> << >>,
              writes |-> << [stream |-> stream, ok |-> writeOk] >>]
        ELSE [result |-> ErrNil, incs |-> << >>, writes |-> << >>]

(* validateRawRpcRequest returning the error of a rejection write that     *)
(* failed.                                                                 *)
validateRawRpcRequestCheckWriteFatal(stream, remaining, writeOk) ==
    LET a == 1
    IN  IF a > remaining
        THEN [result |-> IF writeOk THEN ErrRateLimited ELSE "write failed",
              incs |-> << stream.peer >>,
              writes |-> << [stream |-> stream, ok |-> writeOk] >>]
        ELSE [result |-> ErrNil, incs |-> << >>, writes |-> << >>]

(* validateRawRpcRequest with a request counted as 0. *)
validateRawRpcRequestCheckZeroAmt(stream, remaining, writeOk) ==
    LET a == 0
    IN  IF a > remaining
        THEN [result |-> ErrRateLimited,
              incs |-> << stream.peer >>,
              writes |-> << [stream |-> stream, ok |-> writeOk] >>]
        ELSE [result |-> ErrNil, incs |-> << >>, writes |-> << >>]

(* validateRawRpcRequest, from the read of remaining to the return. *)
validateRawRpcRequestCheck(stream, remaining, writeOk) ==
    LET a == 1
    IN  IF a > remaining
        THEN [result |-> ErrRateLimited,
              incs |-> << stream.peer >>,
              writes |-> << [stream |-> stream, ok |-> writeOk] >>]
        ELSE [result |-> ErrNil, incs |-> << >>, writes |-> << >>]

(* add keying the bucket by topic and peer instead of by peer. *)
addCommitTopicKey(stream, amt) ==
    [key |-> stream.protocol \o PeerKey(stream.peer), amount |-> amt]

(* add: the key and the amount it hands to collector.Add. *)
addCommit(stream, amt) == [key |-> PeerKey(stream.peer), amount |-> amt]

(* addRawStream: the key and the amount it hands to collector.Add. *)
addRawStreamCommit(stream) == [key |-> PeerKey(stream.peer), amount |-> 1]

(* The record of commits after one more: per collector and key, the cost   *)
(* committed in the current instant, the ticks since the last commit (up   *)
(* to one second) and the cost of that commit.                             *)
HistAdd(h, c, key, amount) ==
    [h EXCEPT ![c] =
        [k \in DOMAIN h[c] \cup {key} |->
            IF k = key
            THEN [now |-> (IF key \in DOMAIN h[c] THEN h[c][key].now ELSE 0) + amount,
                  quiet |-> 0, last |-> amount]
            ELSE h[c][k]]]

----------------------------------------------------------------------------
(* The state after newRateLimiter. *)

(* A limiter with the given registry, before any call. *)
InitLimiter(registry) ==
    /\ limiterMap = registry
    /\ buckets = [c \in CollectorIds |-> << >>]
    /\ freeCalls = [c \in CollectorIds |-> 0]
    /\ rw = [writer |-> "none", readers |-> {}]
    /\ pc = [i \in Procs |-> "idle"]
    /\ call = [i \in Procs |-> NoCall]
    /\ hist = [c \in CollectorIds |-> << >>]
    /\ ncalls = [i \in Procs |-> 0]

(* A conversion that has not run, and what a conversion has returned. *)
NotRun == [ran |-> FALSE, list |-> << >>]

Result(list) == [ran |-> TRUE, list |-> list]

(* The limiter beside empty arrays. *)
InitWith(registry) ==
    /\ InitLimiter(registry)
    /\ resources = << >>
    /\ tasks = << >>
    /\ resourceData = NotRun
    /\ taskData = NotRun

Init == InitWith(newRateLimiter)

----------------------------------------------------------------------------
(* The steps of a call.  A handler's call takes the guard, resolves the    *)
(* collector, uses it, and drops the guard (the deferred unlock) before it *)
(* returns; each of these is one step, so that calls of different handlers *)
(* interleave as the guard lets them.                                      *)

Ops == {"topicCollector", "validateRequest", "validateRawRpcRequest",
        "add", "addRawStream", "free"}

(* A handler starts a call. *)
Call(i, op, stream, amt) ==
    /\ pc[i] \in {"idle", "done"}
    /\ pc' = [pc EXCEPT ![i] = "lock"]
    /\ call' = [call EXCEPT ![i] = NewCall(call[i], op, stream, amt)]
    /\ UNCHANGED <<limiterMap, buckets, freeCalls, rw, hist, arrays>>

(* l.RLock() or l.Lock() on entry. *)
Acquire(i) ==
    /\ pc[i] = "lock"
    /\ IF LockMode(call[i].op) = "R" THEN RLock(i) ELSE Lock(i)
    /\ pc' = [pc EXCEPT ![i] = IF call[i].op = "free" THEN "loop" ELSE "retrieve"]
    /\ UNCHANGED <<limiterMap, buckets, freeCalls, call, hist, ncalls, arrays>>

(* A return that leaves the exclusive hold in place. *)
ReleaseKeepsLock(i) ==
    /\ pc[i] = "unlock"
    /\ IF LockMode(call[i].op) = "R" THEN RUnlock(i) ELSE UNCHANGED rw
    /\ pc' = [pc EXCEPT ![i] = "done"]
    /\ UNCHANGED <<limiterMap, buckets, freeCalls, call, hist, ncalls>>

(* The deferred l.RUnlock() or l.Unlock(), and the return. *)
Release(i) ==
    /\ pc[i] = "unlock"
    /\ IF LockMode(call[i].op) = "R" THEN RUnlock(i) ELSE Unlock(i)
    /\ pc' = [pc EXCEPT ![i] = "done"]
    /\ UNCHANGED <<limiterMap, buckets, freeCalls, call, hist, ncalls>>

(* add and addRawStream handing the error of the lookup to their caller   *)
(* instead of logging it.                                                  *)
RetrievePropagating(i) ==
    /\ pc[i] = "retrieve"
    /\ LET op == call[i].op
           r == retrieveCollector(TopicOf(op, call[i].stream))
       IN  IF r.err # ErrNil
           THEN /\ call' = [call EXCEPT ![i].result = r.err]
                /\ pc' = [pc EXCEPT ![i] = "unlock"]
           ELSE /\ call' = [call EXCEPT ![i].collector = r.collector]
                /\ pc' = [pc EXCEPT ![i] = IF op = "topicCollector" THEN "unlock" ELSE "use"]
    /\ UNCHANGED <<limiterMap, buckets, freeCalls, rw, hist, ncalls>>

(* collector, err := l.retrieveCollector(topic), and what the caller does  *)
(* with an error: the validations and topicCollector return it, add and    *)
(* addRawStream log it and return.                                         *)
Retrieve(i) ==
    /\ pc[i] = "retrieve"
    /\ LET op == call[i].op
           r == retrieveCollector(TopicOf(op, call[i].stream))
       IN  IF r.err # ErrNil
           THEN /\ call' = [call EXCEPT
                        ![i].result = IF op \in {"add", "addRawStream"} THEN ErrNil ELSE r.err,
                        ![i].logs = IF op \in {"add", "addRawStream"} THEN 1 ELSE 0]
                /\ pc' = [pc EXCEPT ![i] = "unlock"]
           ELSE /\ call' = [call EXCEPT ![i].collector = r.collector]
                /\ pc' = [pc EXCEPT ![i] = IF op = "topicCollector" THEN "unlock" ELSE "use"]
    /\ UNCHANGED <<limiterMap, buckets, freeCalls, rw, hist, ncalls>>

(* validateRequest charging the request it admits. *)
ValidateRequestUseConsuming(i) ==
    /\ pc[i] = "use"
    /\ LET key == PeerKey(call[i].stream.peer)
           remaining == CollectorRemaining(buckets, call[i].collector, key)
       IN  \E writeOk \in BOOLEAN :
               LET out == validateRequestCheck(call[i].stream, call[i].amt,
                                               remaining, writeOk)
               IN  /\ call' = [call EXCEPT ![i].remaining = remaining,
                                           ![i].result = out.result,
                                           ![i].incs = out.incs,
                                           ![i].writes = out.writes]
                   /\ buckets' = IF out.result = ErrNil
                                 THEN CollectorAdd(buckets, call[i].collector, key,
                                                   Max(call[i].amt, 1))
                                 ELSE buckets
    /\ pc' = [pc EXCEPT ![i] = "unlock"]
    /\ UNCHANGED <<limiterMap, freeCalls, rw, hist, ncalls>>

(* validateRequest, lines 75-86. *)
ValidateRequestUse(i) ==
    /\ pc[i] = "use"
    /\ LET remaining == CollectorRemaining(buckets, call[i].collector,
                                           PeerKey(call[i].stream.peer))
       IN  \E writeOk \in BOOLEAN :
               LET out == validateRequestCheck(call[i].stream, call[i].amt,
                                               remaining, writeOk)
               IN  call' = [call EXCEPT ![i].remaining = remaining,
                                        ![i].result = out.result,
                                        ![i].incs = out.incs,
                                        ![i].writes = out.writes]
    /\ pc' = [pc EXCEPT ![i] = "unlock"]
    /\ UNCHANGED <<limiterMap, buckets, freeCalls, rw, hist, ncalls>>

(* validateRawRpcRequest charging the request it admits. *)
ValidateRawRpcRequestUseConsuming(i) ==
    /\ pc[i] = "use"
    /\ LET key == PeerKey(call[i].stream.peer)
           remaining == CollectorRemaining(buckets, call[i].collector, key)
       IN  \E writeOk \in BOOLEAN :
               LET out == validateRawRpcRequestCheck(call[i].stream, remaining, writeOk)
               IN  /\ call' = [call EXCEPT ![i].remaining = remaining,
                                           ![i].result = out.result,
                                           ![i].incs = out.incs,
                                           ![i].writes = out.writes]
                   /\ buckets' = IF out.result = ErrNil
                                 THEN CollectorAdd(buckets, call[i].collector, key, 1)
                                 ELSE buckets
    /\ pc' = [pc EXCEPT ![i] = "unlock"]
    /\ UNCHANGED <<limiterMap, freeCalls, rw, hist, ncalls>>

(* validateRawRpcRequest, lines 100-109. *)
ValidateRawRpcRequestUse(i) ==
    /\ pc[i] = "use"
    /\ LET remaining == CollectorRemaining(buckets, call[i].collector,
                                           PeerKey(call[i].stream.peer))
       IN  \E writeOk \in BOOLEAN :
               LET out == validateRawRpcRequestCheck(call[i].stream, remaining, writeOk)
               IN  call' = [call EXCEPT ![i].remaining = remaining,
                                        ![i].result = out.result,
                                        ![i].incs = out.incs,
                                        ![i].writes = out.writes]
    /\ pc' = [pc EXCEPT ![i] = "unlock"]
    /\ UNCHANGED <<limiterMap, buckets, freeCalls, rw, hist, ncalls>>

(* collector.Add(key, amount) under the exclusive hold. *)
Commit(i, k) ==
    /\ pc[i] = "use"
    /\ buckets' = CollectorAdd(buckets, call[i].collector, k.key, k.amount)
    /\ hist' = HistAdd(hist, call[i].collector, k.key, k.amount)
    /\ pc' = [pc EXCEPT ![i] = "unlock"]
    /\ UNCHANGED <<limiterMap, freeCalls, rw, call, ncalls>>

(* add, lines 125-126. *)
AddUse(i) == Commit(i, addCommit(call[i].stream, call[i].amt))

(* addRawStream, lines 142-143. *)
AddRawStreamUse(i) == Commit(i, addRawStreamCommit(call[i].stream))

(* free's iteration without the check for a collector seen before. *)
freeIterationPerKey(i, t) ==
    LET collector == limiterMap[t]
        rest == [u \in DOMAIN limiterMap \ {t} |-> limiterMap[u]]
    IN  /\ buckets' = CollectorFree(buckets, collector)
        /\ freeCalls' = [freeCalls EXCEPT ![collector] = @ + 1]
        /\ hist' = [hist EXCEPT ![collector] = << >>]
        /\ limiterMap' = rest
        /\ call' = [call EXCEPT ![i].tempMap = @ \cup {collector},
                                 ![i].visited = @ \cup {t}]

(* One iteration of free's loop over the registry, which Go visits in any  *)
(* order: a collector seen before is only removed, another is freed first. *)
freeIteration(i, t) ==
    LET collector == limiterMap[t]
        rest == [u \in DOMAIN limiterMap \ {t} |-> limiterMap[u]]
    IN  IF collector \in call[i].tempMap
        THEN /\ limiterMap' = rest
             /\ call' = [call EXCEPT ![i].visited = @ \cup {t}]
             /\ UNCHANGED <<buckets, freeCalls, hist>>
        ELSE /\ buckets' = CollectorFree(buckets, collector)
             /\ freeCalls' = [freeCalls EXCEPT ![collector] = @ + 1]
             /\ hist' = [hist EXCEPT ![collector] = << >>]
             /\ limiterMap' = rest
             /\ call' = [call EXCEPT ![i].tempMap = @ \cup {collector},
                                      ![i].visited = @ \cup {t}]

(* free's loop leaving the entries it has visited in the registry. *)
FreeLoopKeepsEntries(i) ==
    /\ pc[i] = "loop"
    /\ IF DOMAIN limiterMap \ call[i].visited = {}
       THEN /\ pc' = [pc EXCEPT ![i] = "unlock"]
            /\ UNCHANGED <<limiterMap, buckets, freeCalls, hist, call>>
       ELSE /\ \E t \in DOMAIN limiterMap \ call[i].visited :
                   LET collector == limiterMap[t]
                   IN  IF collector \in call[i].tempMap
                       THEN /\ call' = [call EXCEPT ![i].visited = @ \cup {t}]
                            /\ UNCHANGED <<buckets, freeCalls, hist>>
                       ELSE /\ buckets' = CollectorFree(buckets, collector)
                            /\ freeCalls' = [freeCalls EXCEPT ![collector] = @ + 1]
                            /\ hist' = [hist EXCEPT ![collector] = << >>]
                            /\ call' = [call EXCEPT ![i].tempMap = @ \cup {collector},
                                                     ![i].visited = @ \cup {t}]
            /\ UNCHANGED <<limiterMap, pc>>
    /\ UNCHANGED <<rw, ncalls>>

FreeLoop(i) ==
    /\ pc[i] = "loop"
    /\ IF DOMAIN limiterMap = {}
       THEN /\ pc' = [pc EXCEPT ![i] = "unlock"]
            /\ UNCHANGED <<limiterMap, buckets, freeCalls, hist, call>>
       ELSE /\ \E t \in DOMAIN limiterMap : freeIteration(i, t)
            /\ UNCHANGED pc
    /\ UNCHANGED <<rw, ncalls>>

(* The public operations of the limiter, each the steps of its body. *)

topicCollector(i) ==
    /\ call[i].op = "topicCollector"
    /\ (Acquire(i) \/ Retrieve(i) \/ Release(i))
    /\ UNCHANGED arrays

validateRequest(i) ==
    /\ call[i].op = "validateRequest"
    /\ (Acquire(i) \/ Retrieve(i) \/ ValidateRequestUse(i) \/ Release(i))
    /\ UNCHANGED arrays

validateRawRpcRequest(i) ==
    /\ call[i].op = "validateRawRpcRequest"
    /\ (Acquire(i) \/ Retrieve(i) \/ ValidateRawRpcRequestUse(i) \/ Release(i))
    /\ UNCHANGED arrays

add(i) ==
    /\ call[i].op = "add"
    /\ (Acquire(i) \/ Retrieve(i) \/ AddUse(i) \/ Release(i))
    /\ UNCHANGED arrays

addRawStream(i) ==
    /\ call[i].op = "addRawStream"
    /\ (Acquire(i) \/ Retrieve(i) \/ AddRawStreamUse(i) \/ Release(i))
    /\ UNCHANGED arrays

free(i) ==
    /\ call[i].op = "free"
    /\ (Acquire(i) \/ FreeLoop(i) \/ Release(i))
    /\ UNCHANGED arrays

LimiterStep(i) ==
    \/ topicCollector(i)
    \/ validateRequest(i)
    \/ validateRawRpcRequest(i)
    \/ add(i)
    \/ addRawStream(i)
    \/ free(i)

(* Time passing with buckets that leak on below empty. *)
ElapseBelowEmpty(d) ==
    /\ \E i \in Procs : pc[i] = "use"
    /\ buckets' = [c \in CollectorIds |->
                      [k \in DOMAIN buckets[c] |-> buckets[c][k] - d]]
    /\ hist' = [c \in CollectorIds |->
                   [k \in DOMAIN hist[c] |->
                       [hist[c][k] EXCEPT !.now = 0,
                                          !.quiet = Min(@ + d, TicksPerSec)]]]
    /\ UNCHANGED <<limiterMap, freeCalls, rw, pc, call, ncalls, arrays>>

(* Time passes by d ticks: every bucket leaks, and the instant ends.  The  *)
(* limiter reads the clock only inside collector.Remaining and             *)
(* collector.Add, so time is let pass when a handler is about to do so.    *)
Elapse(d) ==
    /\ \E i \in Procs : pc[i] = "use"
    /\ buckets' = [c \in CollectorIds |->
                      [k \in DOMAIN buckets[c] |-> Max(0, buckets[c][k] - d)]]
    /\ hist' = [c \in CollectorIds |->
                   [k \in DOMAIN hist[c] |->
                       [hist[c][k] EXCEPT !.now = 0,
                                          !.quiet = Min(@ + d, TicksPerSec)]]]
    /\ UNCHANGED <<limiterMap, freeCalls, rw, pc, call, ncalls, arrays>>

Tick == Elapse(1)

Second == Elapse(TicksPerSec)

----------------------------------------------------------------------------
(* The calls the stream handlers make. *)

StreamProtocols ==
    {addEncoding(RPCGoodByeTopic), addEncoding(RPCBlocksByRootTopic)}

(* The arguments an operation reads, drawn from the given protocols, peers *)
(* and amounts; the arguments it does not read are left at their zero.     *)
Args(op, protocols, peers, amounts) ==
    CASE op = "free" -> {[stream |-> Stream("", 0), amt |-> 0]}
      [] op = "topicCollector" ->
            {[stream |-> Stream(t, 0), amt |-> 0] : t \in protocols \cup {rpcLimiterTopic}}
      [] op \in {"validateRawRpcRequest", "addRawStream"} ->
            {[stream |-> Stream(t, p), amt |-> 0] : t \in protocols, p \in peers}
      [] OTHER ->
            {[stream |-> Stream(t, p), amt |-> a] :
                t \in protocols, p \in peers, a \in amounts}

StartFrom(i, limit, protocols, peers, amounts) ==
    /\ ncalls[i] < limit
    /\ ncalls' = [ncalls EXCEPT ![i] = @ + 1]
    /\ \E op \in Ops : \E a \in Args(op, protocols, peers, amounts) :
           Call(i, op, a.stream, a.amt)

(* One handler, calling with every protocol, peer and amount. *)
Start == StartFrom("h1", MaxCalls, StreamProtocols, Peers, Amounts)

Next ==
    \/ Start
    \/ LimiterStep("h1")
    \/ Tick

Spec == Init /\ [][Next]_vars

(* Two handlers running their calls concurrently, on the streams of one    *)
(* peer with one protocol, while time passes in whole seconds.             *)
ConcProtocols == {addEncoding(RPCGoodByeTopic)}

StartConc(i) == StartFrom(i, MaxConcCalls, ConcProtocols, {1}, {1})

NextConc ==
    \/ \E i \in Procs : StartConc(i)
    \/ \E i \in Procs : LimiterStep(i)
    \/ Second

SpecConc == Init /\ [][NextConc]_vars

(* The concurrent handlers under a fair scheduler: a handler that can take *)
(* the next step of its call takes it, and a handler waiting for the guard *)
(* gets it when the guard comes free time and again (sync.RWMutex hands    *)
(* the guard to a waiting writer before it admits new readers, and wakes   *)
(* the waiting readers when the writer leaves).                            *)
FairConc ==
    \A i \in Procs :
        /\ WF_vars(LimiterStep(i))
        /\ SF_vars(Acquire(i))

SpecConcFair == SpecConc /\ FairConc

(* The limiter's operations on every registry the limiter type admits for  *)
(* the block requests: the one newRateLimiter builds, where one key holds  *)
(* blockCollector, and the one where a second key shares it.  Time passes  *)
(* in whole seconds.                                                       *)
AliasedRegistry ==
    [t \in DOMAIN newRateLimiter \cup {addEncoding(RPCBlocksByRootTopic)} |->
        IF t \in DOMAIN newRateLimiter THEN newRateLimiter[t] ELSE blockCollector]

InitAliased == \E registry \in {newRateLimiter, AliasedRegistry} : InitWith(registry)

BlockProtocols == {addEncoding(RPCBlocksByRangeTopic), addEncoding(RPCBlocksByRootTopic)}

StartAliased == StartFrom("h1", MaxCalls, BlockProtocols, Peers, Amounts)

NextAliased ==
    \/ StartAliased
    \/ LimiterStep("h1")
    \/ Second

SpecAliased == InitAliased /\ [][NextAliased]_vars

(* A burst of requests within one instant: one handler serves the goodbye *)
(* streams of capacity + 1 peers.  On the general gate peer 1 may commit   *)
(* time and again while it is alone, or else the peers commit once each,   *)
(* joining in their order; the first, the second and the last peer ask for *)
(* admission.  Peer 1 is also checked and charged on the stream's own      *)
(* topic, and checked on a topic that is not registered.                   *)
GatePeers == 1..(Collectors[rpcCollector].capacity + 1)

GateStream(peer) == Stream(addEncoding(RPCGoodByeTopic), peer)

CommittedNow(c, peer) ==
    IF PeerKey(peer) \in DOMAIN hist[c] THEN hist[c][PeerKey(peer)].now ELSE 0

GateCommitAllowed(peer) ==
    \/ /\ peer = 1
       /\ CommittedNow(rpcCollector, peer) <= Collectors[rpcCollector].capacity
       /\ CommittedNow(rpcCollector, peer + 1) = 0
    \/ /\ peer > 1
       /\ CommittedNow(rpcCollector, peer) = 0
       /\ CommittedNow(rpcCollector, peer - 1) > 0
       /\ CommittedNow(rpcCollector, 1) = 1

StartGate ==
    /\ \/ \E peer \in {1, 1 + 1, Cardinality(GatePeers)} :
              Call("h1", "validateRawRpcRequest", GateStream(peer), 0)
       \/ \E peer \in GatePeers :
              /\ GateCommitAllowed(peer)
              /\ Call("h1", "addRawStream", GateStream(peer), 0)
       \/ \E amt \in {0, 1} : Call("h1", "validateRequest", GateStream(1), amt)
       \/ Call("h1", "validateRequest", Stream(addEncoding(RPCBlocksByRootTopic), 1), 1)
       \/ /\ CommittedNow(goodbyeCollector, 1) = 0
          /\ Call("h1", "add", GateStream(1), 1)
    /\ UNCHANGED ncalls

NextGate ==
    \/ StartGate
    \/ validateRawRpcRequest("h1")
    \/ addRawStream("h1")
    \/ validateRequest("h1")
    \/ add("h1")

SpecGate == Init /\ [][NextGate]_vars

----------------------------------------------------------------------------
(* The arrays of package types and their conversions. *)

(* A nil pointer, the zero value of a slice's entries. *)
Nil == 0

(* The data records the arrays are built from, each a pointer that is not  *)
(* nil.                                                                    *)
DataRecords == 1..NumData

(* The lists of data records a caller holds. *)
MetaData == UNION {[1..n -> DataRecords] : n \in 0..MaxLen}

NewResource(data) == [data |-> data]

NewTask(data) == [data |-> data]

(* A ResourceArray with one resource per record, as its callers build it. *)
NewResourceArray(metaData) == [i \in DOMAIN metaData |-> NewResource(metaData[i])]

NewTaskDataArray(metaData) == [i \in DOMAIN metaData |-> NewTask(metaData[i])]

(* make([]*T, len, cap): a slice of len entries, every one nil. *)
MakeSlice(len, cap) == [i \in 1..len |-> Nil]

(* for _, v := range s { arr = append(arr, v.data) } *)
RECURSIVE AppendData(_, _)
AppendData(arr, s) ==
    IF s = << >>
    THEN arr
    ELSE AppendData(Append(arr, Head(s).data), Tail(s))

(* ResourceArray.To: the slice is made with s.Len() entries and appended   *)
(* to.                                                                     *)
ResourceArrayTo(s) == AppendData(MakeSlice(Len(s), Len(s)), s)

(* TaskDataArray.To: the slice is made empty, with room for s.Len()        *)
(* entries, and appended to.                                               *)
TaskDataArrayTo(s) == AppendData(MakeSlice(0, Len(s)), s)

InitArrays ==
    /\ InitLimiter(newRateLimiter)
    /\ resources \in {NewResourceArray(m) : m \in MetaData}
    /\ tasks \in {NewTaskDataArray(m) : m \in MetaData}
    /\ resourceData = NotRun
    /\ taskData = NotRun

LimiterVars == <<limiterMap, buckets, freeCalls, rw, pc, call, hist, ncalls>>

(* A caller converts the resources. *)
CallResourceArrayTo ==
    /\ ~resourceData.ran
    /\ resourceData' = Result(ResourceArrayTo(resources))
    /\ UNCHANGED <<LimiterVars, resources, tasks, taskData>>

(* A caller converts the tasks. *)
CallTaskDataArrayTo ==
    /\ ~taskData.ran
    /\ taskData' = Result(TaskDataArrayTo(tasks))
    /\ UNCHANGED <<LimiterVars, resources, tasks, resourceData>>

NextArrays ==
    \/ CallResourceArrayTo
    \/ CallTaskDataArrayTo

SpecArrays == InitArrays /\ [][NextArrays]_vars

----------------------------------------------------------------------------
(* Properties. *)

(* Handler i takes the step of op that uses the collector. *)
UseStep(i, op) == pc[i] = "use" /\ call[i].op = op /\ pc'[i] = "unlock"

(* Handler i has returned from op. *)
Returned(i, op) == pc[i] = "done" /\ call[i].op = op

Declared(amt) == IF amt = 0 THEN 1 ELSE amt

(* What a check on a stream of the topic observes for the peer. *)
Observed(bs, registry, topic, peer) ==
    CollectorRemaining(bs, registry[topic], PeerKey(peer))

Validations == {"validateRequest", "validateRawRpcRequest"}

(* C2: a validateRequest or validateRawRpcRequest that returns             *)
(* ErrRateLimited has, by the time it returns, incremented the bad         *)
(* response score of the stream's peer exactly once and written exactly    *)
(* one rejection onto the stream; a call that returns nil or an internal   *)
(* error has done neither, and nothing is done before the check.           *)
C2_OnePenaltyOneRejection ==
    \A i \in Procs :
        call[i].op \in Validations =>
            IF pc[i] \in {"unlock", "done"} /\ call[i].result = ErrRateLimited
            THEN /\ call[i].incs = << call[i].stream.peer >>
                 /\ Len(call[i].writes) = 1
                 /\ call[i].writes[1].stream = call[i].stream
            ELSE /\ call[i].incs = << >>
                 /\ call[i].writes = << >>

C2_Witness ==
    \E i \in Procs :
        /\ Returned(i, "validateRawRpcRequest")
        /\ call[i].result = ErrRateLimited
        /\ Len(call[i].incs) = 1
        /\ Len(call[i].writes) = 1

(* C3: free runs Collector.Free at most once on any collector, and when    *)
(* it has walked the registry every collector of the registry has been     *)
(* freed exactly once, also the one two keys share, and the registry is    *)
(* empty.                                                                  *)
C3_FreeOncePerCollector ==
    /\ \A c \in CollectorIds : freeCalls[c] <= 1
    /\ \A i \in Procs :
           (call[i].op = "free" /\ pc[i] \in {"unlock", "done"}) =>
               /\ DOMAIN limiterMap = {}
               /\ \A c \in CollectorIds : freeCalls[c] = 1

C3_Witness ==
    \E i \in Procs :
        /\ Returned(i, "free")
        /\ DOMAIN limiterMap = {}
        /\ Cardinality(call[i].visited) > Cardinality(call[i].tempMap)
        /\ freeCalls[blockCollector] = 1

Guarded(i) == pc[i] \in {"retrieve", "use", "loop", "unlock"}

Mutations == {"add", "addRawStream", "free"}

(* C5: a handler that is looking up the registry or using a collector      *)
(* holds the guard, the exclusive hold when its operation is add,          *)
(* addRawStream or free; while one handler holds the guard exclusively no  *)
(* other handler is inside its guarded section; and no operation returns   *)
(* retrieveCollector's lock error.                                         *)
C5_LockDiscipline ==
    /\ \A i \in Procs :
           Guarded(i) =>
               IF call[i].op \in Mutations
               THEN rw.writer = i /\ rw.readers = {}
               ELSE i \in rw.readers /\ rw.writer = "none"
    /\ \A i \in Procs : \A j \in Procs \ {i} :
           (Guarded(i) /\ call[i].op \in Mutations) => ~Guarded(j)
    /\ \A i \in Procs : call[i].result # ErrNoLock

C5_Witness ==
    \E i \in Procs : \E j \in Procs \ {i} :
        /\ pc[i] = "use"
        /\ call[i].op = "add"
        /\ rw.writer = i
        /\ pc[j] = "lock"
        /\ call[j].op = "validateRequest"

(* Handler i is in an add that follows its own successful check of the     *)
(* same stream and amount.                                                 *)
CheckedAdd(i) ==
    /\ call[i].op = "add"
    /\ call[i].prior.ok
    /\ call[i].prior.stream = call[i].stream
    /\ call[i].prior.amt = call[i].amt

(* C6: every add that follows its handler's successful check was checked   *)
(* against a remaining allowance that covered it on its own.  The witness  *)
(* is the race: two handlers checked the same peer and topic against the   *)
(* same remaining allowance, which covers only one of them, and both have  *)
(* committed their cost.                                                   *)
C6_EachCheckSawRoom ==
    \A i \in Procs :
        CheckedAdd(i) => call[i].prior.remaining >= Declared(call[i].prior.amt)

C6_Witness ==
    \E i \in Procs : \E j \in Procs \ {i} :
        /\ Returned(i, "add") /\ CheckedAdd(i)
        /\ Returned(j, "add") /\ CheckedAdd(j)
        /\ call[i].stream = call[j].stream
        /\ call[i].prior.remaining = call[j].prior.remaining
        /\ call[i].amt + call[j].amt > call[i].prior.remaining
        /\ CommittedNow(call[i].collector, call[i].stream.peer) = call[i].amt + call[j].amt

(* The peers that have committed to the general gate in this instant. *)
GateCommitters == {p \in GatePeers : CommittedNow(rpcCollector, p) > 0}

GateCapacity == Collectors[rpcCollector].capacity

(* C7 as stated: once capacity many distinct peers have each committed     *)
(* cost 1 to the general gate within one instant, validateRawRpcRequest    *)
(* rejects the next request of that instant, whichever peer sends it.      *)
C7_GateSharedByAllPeers ==
    \A i \in Procs :
        (/\ Returned(i, "validateRawRpcRequest")
         /\ Cardinality(GateCommitters) >= GateCapacity
         /\ \A p \in GateCommitters : CommittedNow(rpcCollector, p) = 1)
            => call[i].result = ErrRateLimited

(* C7, amended: the general gate meters each peer by itself.  Once one     *)
(* peer has committed cost 1 to it capacity many times within one instant, *)
(* validateRawRpcRequest rejects that peer's next request of the instant,  *)
(* also when the bucket of the stream's own topic has room; a peer that    *)
(* has committed less than the capacity is admitted, whatever the other    *)
(* peers have committed.                                                   *)
C7_GatePerPeer ==
    \A i \in Procs :
        Returned(i, "validateRawRpcRequest") =>
            call[i].result =
                IF CommittedNow(rpcCollector, call[i].stream.peer) >= GateCapacity
                THEN ErrRateLimited
                ELSE ErrNil

C7_Witness ==
    \E i \in Procs :
        /\ Returned(i, "validateRawRpcRequest")
        /\ CommittedNow(rpcCollector, call[i].stream.peer) = GateCapacity
        /\ call[i].result = ErrRateLimited
        /\ Observed(buckets, limiterMap, call[i].stream.protocol, call[i].stream.peer) >= 1

(* The collectors of capacity 1 that leak 1 per second. *)
UnitCollectors ==
    {c \in CollectorIds : Collectors[c].capacity = 1 /\ Collectors[c].rate = 1}

(* C8: on a topic whose collector has capacity 1 and rate 1 per second,    *)
(* validateRequest with amount 1 returns nil for a peer without a bucket,  *)
(* ErrRateLimited when the peer has committed cost 1 or more in this       *)
(* instant, and nil again once a second or more has passed since the       *)
(* peer's last commit.                                                     *)
C8_UnitBucketScenario ==
    [][\A i \in Procs :
          (/\ UseStep(i, "validateRequest")
           /\ call[i].amt = 1
           /\ call[i].collector \in UnitCollectors) =>
              LET c == call[i].collector
                  key == PeerKey(call[i].stream.peer)
              IN  /\ key \notin DOMAIN buckets[c] => call'[i].result = ErrNil
                  /\ (key \in DOMAIN hist[c] /\ hist[c][key].now >= 1)
                        => call'[i].result = ErrRateLimited
                  /\ (key \in DOMAIN hist[c] /\ hist[c][key].quiet >= TicksPerSec)
                        => call'[i].result = ErrNil]_vars

C8_Witness ==
    \E i \in Procs :
        /\ Returned(i, "validateRequest")
        /\ call[i].amt = 1
        /\ call[i].collector \in UnitCollectors
        /\ call[i].result = ErrNil
        /\ LET key == PeerKey(call[i].stream.peer)
           IN  /\ key \in DOMAIN hist[call[i].collector]
               /\ hist[call[i].collector][key].last = 1
               /\ hist[call[i].collector][key].quiet = TicksPerSec

(* Handler i takes a step of its call of op. *)
StepOf(i, op) ==
    /\ call[i].op = op
    /\ pc[i] \in {"lock", "retrieve", "use", "loop", "unlock"}
    /\ pc'[i] # pc[i] \/ call'[i] # call[i]

(* C9: validateRequest on a stream whose topic is not registered returns   *)
(* the error of the lookup, neither nil nor ErrRateLimited, with no        *)
(* penalty and no rejection written, and no step of it changes the         *)
(* registry or any collector.                                              *)
C9_UnregisteredTopicIsAnError ==
    /\ [](\A i \in Procs :
             (/\ call[i].op = "validateRequest"
              /\ pc[i] \in {"use", "unlock", "done"}
              /\ call[i].collector = 0)
                => /\ pc[i] # "use"
                   /\ call[i].result = ErrNotFound
                   /\ call[i].incs = << >>
                   /\ call[i].writes = << >>)
    /\ [][\A i \in Procs :
             (/\ StepOf(i, "validateRequest")
              /\ call[i].stream.protocol \notin DOMAIN limiterMap)
                => /\ limiterMap' = limiterMap
                   /\ buckets' = buckets
                   /\ call'[i].collector = 0]_vars

C9_Witness ==
    \E i \in Procs :
        /\ Returned(i, "validateRequest")
        /\ call[i].stream.protocol \notin DOMAIN limiterMap
        /\ DOMAIN limiterMap # {}
        /\ call[i].result = ErrNotFound

(* The cost consumed and not yet leaked, per collector and key. *)
Consumed(bs) ==
    [c \in CollectorIds |-> [k \in DOMAIN bs[c] |-> CollectorCount(bs, c, k)]]

(* C10: no step of a validateRequest or validateRawRpcRequest changes the  *)
(* consumed cost of any collector and key, whatever the call returns.      *)
C10_ChecksConsumeNothing ==
    [][\A i \in Procs : \A op \in Validations :
          StepOf(i, op) => Consumed(buckets') = Consumed(buckets)]_vars

C10_Witness ==
    \E i \in Procs :
        /\ Returned(i, "validateRequest")
        /\ call[i].result = ErrNil
        /\ call[i].prior.ok
        /\ call[i].prior.stream = call[i].stream
        /\ call[i].remaining = call[i].prior.remaining
        /\ call[i].remaining = Collectors[call[i].collector].capacity

(* What a validation has decided: its result and its side effects. *)
Outcome(frame) ==
    [result |-> frame.result, incs |-> frame.incs, writes |-> frame.writes]

(* C11: a validateRequest with declared amount 0 on a registered topic     *)
(* returns what validateRequest with declared amount 1 returns on the same *)
(* stream in the same bucket state, with the same penalty and the same     *)
(* rejection write or with none, and like it leaves the buckets alone.     *)
C11_ZeroIsOne ==
    [][\A i \in Procs :
          (UseStep(i, "validateRequest") /\ call[i].amt = 0) =>
              LET s == call[i].stream
                  remaining == Observed(buckets, limiterMap, s.protocol, s.peer)
              IN  /\ \E writeOk \in BOOLEAN :
                         Outcome(call'[i]) = validateRequestCheck(s, 1, remaining, writeOk)
                  /\ Outcome(call'[i]).result =
                         IF remaining >= 1 THEN ErrNil ELSE ErrRateLimited
                  /\ buckets' = buckets]_vars

C11_Witness ==
    \E i \in Procs :
        /\ Returned(i, "validateRequest")
        /\ call[i].amt = 0
        /\ call[i].result = ErrRateLimited
        /\ call[i].remaining = 0
        /\ Len(call[i].incs) = 1
        /\ Len(call[i].writes) = 1

(* C12: an add for a peer on a stream changes the remaining allowance of   *)
(* that peer in the collector registered for the stream's topic and of     *)
(* nothing else: not of another peer in that collector, and not of any     *)
(* peer in a collector that is another instance.                           *)
C12_AddTouchesOneBucket ==
    [][\A i \in Procs :
          UseStep(i, "add") =>
              LET s == call[i].stream
              IN  /\ s.protocol \in DOMAIN limiterMap
                  /\ \A c \in CollectorIds : \A p \in Peers :
                         (c # limiterMap[s.protocol] \/ p # s.peer) =>
                             CollectorRemaining(buckets', c, PeerKey(p)) =
                                 CollectorRemaining(buckets, c, PeerKey(p))]_vars

C12_Witness ==
    \E i \in Procs :
        /\ Returned(i, "add")
        /\ call[i].stream.protocol \in DOMAIN limiterMap
        /\ LET c == limiterMap[call[i].stream.protocol]
               key == PeerKey(call[i].stream.peer)
           IN  /\ CollectorRemaining(buckets, c, key) < Collectors[c].capacity
               /\ \E d \in CollectorIds \ {c} :
                      /\ key \in DOMAIN hist[d]
                      /\ hist[d][key].now > 0
                      /\ CollectorRemaining(buckets, d, key) =
                             Collectors[d].capacity - hist[d][key].now

(* C13: an add on a stream whose topic is not registered returns to its    *)
(* caller without an error, having written one log record; no step of it   *)
(* changes a bucket, frees a collector or changes the registry.            *)
C13_AddUnregisteredOnlyLogs ==
    /\ [](\A i \in Procs :
             (/\ call[i].op = "add"
              /\ pc[i] \in {"use", "unlock", "done"}
              /\ call[i].stream.protocol \notin DOMAIN limiterMap)
                => /\ pc[i] # "use"
                   /\ call[i].collector = 0
                   /\ call[i].result = ErrNil
                   /\ call[i].logs = 1)
    /\ [][\A i \in Procs :
             (/\ StepOf(i, "add")
              /\ call[i].stream.protocol \notin DOMAIN limiterMap)
                => /\ limiterMap' = limiterMap
                   /\ buckets' = buckets
                   /\ freeCalls' = freeCalls]_vars

C13_Witness ==
    \E i \in Procs :
        /\ Returned(i, "add")
        /\ call[i].stream.protocol \notin DOMAIN limiterMap
        /\ DOMAIN limiterMap # {}
        /\ call[i].amt > 0
        /\ call[i].logs = 1
        /\ rw.writer = "none"

C15_RemainingAtMostCapacity ==
    /\ \A c \in CollectorIds : \A p \in Peers :
           CollectorRemaining(buckets, c, PeerKey(p)) <= Collectors[c].capacity
    /\ \A i \in Procs :
           (call[i].op \in Validations /\ call[i].collector # 0) =>
               call[i].remaining <= Collectors[call[i].collector].capacity

C15_Witness ==
    \E i \in Procs :
        /\ Returned(i, "validateRawRpcRequest")
        /\ call[i].collector # 0
        /\ call[i].remaining = Collectors[call[i].collector].capacity
        /\ LET key == PeerKey(call[i].stream.peer)
           IN  /\ key \in DOMAIN hist[call[i].collector]
               /\ hist[call[i].collector][key].last = 1
               /\ hist[call[i].collector][key].quiet > TicksPerUnit(call[i].collector)

(* Some handler commits to the bucket of the key in the collector. *)
CommitStep(c, key) ==
    \E i \in Procs :
        /\ pc[i] = "use"
        /\ pc'[i] = "unlock"
        /\ call[i].op \in {"add", "addRawStream"}
        /\ call[i].collector = c
        /\ PeerKey(call[i].stream.peer) = key

(* C16: a step that is not a commit to a collector's bucket for a peer,    *)
(* time passing included, leaves the remaining value of that bucket where  *)
(* it was or raises it, never above the capacity; so of two reads with     *)
(* time but no commit for the peer between them the second reports at      *)
(* least what the first reported and at most the capacity.                 *)
C16_RemainingGrowsBetweenCommits ==
    [][\A c \in CollectorIds : \A p \in Peers :
          ~CommitStep(c, PeerKey(p)) =>
              /\ CollectorRemaining(buckets', c, PeerKey(p)) >=
                     CollectorRemaining(buckets, c, PeerKey(p))
              /\ CollectorRemaining(buckets', c, PeerKey(p)) <= Collectors[c].capacity]_vars

C16_Witness ==
    \E i \in Procs :
        /\ Returned(i, "validateRequest")
        /\ call[i].collector # 0
        /\ LET c == call[i].collector
               key == PeerKey(call[i].stream.peer)
           IN  /\ key \in DOMAIN hist[c]
               /\ hist[c][key].last > 1
               /\ hist[c][key].quiet > 0
               /\ call[i].remaining > Collectors[c].capacity - hist[c][key].last
               /\ call[i].remaining < Collectors[c].capacity

(* C17: a validation that has written a rejection onto the stream returns  *)
(* ErrRateLimited with the penalty counted, whether the write succeeded or *)
(* failed, and it holds no guard once it has returned.                     *)
C17_FailedWriteChangesNothing ==
    \A i \in Procs :
        call[i].op \in Validations =>
            /\ (call[i].writes # << >>) =>
                   /\ pc[i] \in {"unlock", "done"}
                   /\ call[i].result = ErrRateLimited
                   /\ call[i].incs = << call[i].stream.peer >>
            /\ (pc[i] \in {"unlock", "done"} /\ call[i].collector # 0
                   /\ call[i].remaining < 1) =>
                   /\ call[i].result = ErrRateLimited
                   /\ Len(call[i].writes) = 1
            /\ pc[i] = "done" => (i \notin rw.readers /\ rw.writer # i)

C17_Witness ==
    \E i \in Procs :
        /\ Returned(i, "validateRequest")
        /\ call[i].result = ErrRateLimited
        /\ Len(call[i].writes) = 1
        /\ ~call[i].writes[1].ok
        /\ rw = [writer |-> "none", readers |-> {}]

(* The tokens available to the peer in the collector. *)
AvailableTokens(c, peer) == CollectorRemaining(buckets, c, PeerKey(peer))

InCall(i) == pc[i] \in {"lock", "retrieve", "use", "loop", "unlock"}

(* C19: under a fair scheduler every call of every operation that starts   *)
(* returns, whatever the other handler does and on the error paths too; a  *)
(* handler that has returned holds no guard, and the guard is free when no *)
(* handler is inside a call.                                               *)
C19_EveryCallReturns ==
    /\ \A i \in Procs : InCall(i) ~> (pc[i] = "done")
    /\ [](\A i \in Procs :
             ~Guarded(i) => (rw.writer # i /\ i \notin rw.readers))
    /\ []((\A i \in Procs : ~InCall(i)) => rw = [writer |-> "none", readers |-> {}])

C19_Witness ==
    \E i \in Procs : \E j \in Procs \ {i} :
        /\ Returned(i, "free")
        /\ Returned(j, "add")
        /\ call[j].logs = 1
        /\ ncalls[i] = 1
        /\ ncalls[j] = 1
        /\ rw = [writer |-> "none", readers |-> {}]

(* Handler i is in a free that has freed nothing, on a limiter whose       *)
(* collectors an earlier free has freed.                                   *)
LaterFree(i) ==
    /\ call[i].op = "free"
    /\ call[i].tempMap = {}
    /\ \E c \in CollectorIds : freeCalls[c] > 0

(* C20: a free that is called after a free has completed finds the         *)
(* registry empty, runs Collector.Free on nothing and leaves the registry  *)
(* empty, so that over all the calls of free no collector is freed more    *)
(* than once.                                                              *)
C20_SecondFreeDoesNothing ==
    /\ [](\A c \in CollectorIds : freeCalls[c] <= 1)
    /\ [][\A i \in Procs :
             (StepOf(i, "free") /\ LaterFree(i)) =>
                 /\ DOMAIN limiterMap = {}
                 /\ limiterMap' = limiterMap
                 /\ freeCalls' = freeCalls
                 /\ buckets' = buckets
                 /\ call'[i].tempMap = {}]_vars

C20_Witness ==
    \E i \in Procs :
        /\ Returned(i, "free")
        /\ LaterFree(i)
        /\ call[i].visited = {}
        /\ ncalls[i] = 2
        /\ DOMAIN limiterMap = {}
        /\ \A c \in CollectorIds : freeCalls[c] = 1

(* The list holds the data record of every element of the array, in the   *)
(* array's order, and nothing else.                                        *)
IsDataOf(list, array) ==
    /\ Len(list) = Len(array)
    /\ \A i \in 1..Len(list) : list[i] # Nil
    /\ \A i \in 1..Len(array) : i <= Len(list) /\ list[i] = array[i].data

(* C21: what ResourceArray.To returns for an array has one entry per       *)
(* element of the array, in the array's order, the i-th entry the data     *)
(* record of the i-th element: it is as long as the array and holds no nil *)
(* entry.                                                                  *)
C21_ResourceArrayToIsElementwise ==
    resourceData.ran => IsDataOf(resourceData.list, resources)

(* What the conversions return instead: ResourceArray.To a list twice as   *)
(* long as the array, nil in its first half, while TaskDataArray.To        *)
(* returns the data records of its array.                                  *)
C21_Witness ==
    /\ resourceData.ran
    /\ Len(resources) = 2
    /\ Len(resourceData.list) = 2 * Len(resources)
    /\ \A i \in 1..Len(resources) :
           /\ resourceData.list[i] = Nil
           /\ resourceData.list[Len(resources) + i] = resources[i].data
    /\ taskData.ran
    /\ Len(tasks) = 2
    /\ IsDataOf(taskData.list, tasks)

====
